---- MODULE Spec2Model ----
(***************************************************************************)
(* netback: bounded-concurrency backup of network device configurations.   *)
(*                                                                         *)
(* The model covers main and executeBackups (main.go), the loading of the   *)
(* configuration (config/model.go), the per-device goroutine,              *)
(* transport.SSHClient.Connect / ConnectAndExecute (transport/ssh.go), the *)
(* transport.Session read loop, output.Writer and executor.Execute with    *)
(* its filtering pipeline.  The functions of the read loop and of the      *)
(* pipeline are also applied on their own to bounded sets of arguments.    *)
(*                                                                         *)
(* Text is a sequence of tokens.  A token stands for a piece of text that  *)
(* the regular expressions of a model tell apart: "x" ordinary output,     *)
(* "#" the prompt, "M" a pager marker, "s" a secret, "\n" a line break.    *)
(* A pattern is a token; it matches a text that contains the token, and    *)
(* ReplaceAllString substitutes every occurrence of it.                    *)
(***************************************************************************)
EXTENDS Integers, Sequences, FiniteSets, TLC

\* Bounds of the model.
NumDevices == 2
MaxWorkers == 2
MaxReads == 2
MaxText == 3
MaxLineText == 5
MaxChunk == 2
MaxRules == 2

Devices == 1..NumDevices

\* The empty text.  Commands and send-texts are written to the stream whole and
\* are kept as strings, with "" for an absent one.
Empty == <<>>

\* Loaded model set (config.ModelFile.Models).  Every entry passes
\* validateModelFile: a prompt, compilable patterns, at least one command.
Models ==
  [ ios |-> [ Prompt    |-> "#",
              Comment   |-> <<"!">>,
              PostLogin |-> <<"terminal length 0">>,
              PreLogout |-> "exit",
              Expect    |-> << [Pattern |-> "M", Send |-> " ", Replace |-> Empty] >>,
              Secrets   |-> << [Pattern |-> "s", Replace |-> <<"*">>] >>,
              Comments  |-> <<"show version">>,
              Commands  |-> <<"show running-config">> ],
    junos |-> [ Prompt    |-> "#",
                Comment   |-> <<"!">>,
                PostLogin |-> <<>>,
                PreLogout |-> "exit",
                Expect    |-> <<>>,
                Secrets   |-> <<>>,
                Comments  |-> <<>>,
                Commands  |-> <<"show configuration", "show version">> ],
    eos |-> [ Prompt    |-> "#",
              Comment   |-> Empty,
              PostLogin |-> <<>>,
              PreLogout |-> "",
              Expect    |-> <<>>,
              Secrets   |-> <<>>,
              Comments  |-> <<>>,
              Commands  |-> <<"show running-config">> ] ]

ModelNames == DOMAIN Models

\* A model reference of routerdb.yaml: a loaded model or a name that is not loaded.
ModelRefs == ModelNames \cup {"unknown"}

\* The model references of the orchestration runs: the one-command model and a
\* name that is not loaded.
OrchModelRefs == {"eos", "unknown"}

\* What one stdout.Read can deliver.  The orchestration runs tell a stream that
\* reaches the prompt from one that ends, fails, stalls or times out; the
\* single-session runs also deliver ordinary output and pager markers.
PromptChunks == { <<"#">> }
SessionChunks == { <<"x">>, <<"#">>, <<"M">>, <<"M", "#">> }

----------------------------------------------------------------------------
\* Text helpers (package regexp / strings on token sequences).

\* regexp.MatchString: the pattern occurs in the text.
MatchString(pat, text) == \E k \in 1..Len(text) : text[k] = pat

RECURSIVE ReplaceAllString(_, _, _)
\* regexp.ReplaceAllString: every occurrence of pat becomes repl.
ReplaceAllString(pat, text, repl) ==
  IF text = <<>> THEN <<>>
  ELSE (IF Head(text) = pat THEN repl ELSE <<Head(text)>>)
         \o ReplaceAllString(pat, Tail(text), repl)

RECURSIVE SplitLines(_)
\* strings.Split(text, "\n"): always at least one (possibly empty) line.
SplitLines(text) ==
  IF ~MatchString("\n", text) THEN <<text>>
  ELSE LET k == CHOOSE j \in 1..Len(text) :
                   text[j] = "\n" /\ \A m \in 1..(j-1) : text[m] # "\n"
       IN <<SubSeq(text, 1, k-1)>> \o SplitLines(SubSeq(text, k+1, Len(text)))

RECURSIVE JoinLines(_)
\* strings.Join(lines, "\n").
JoinLines(lines) ==
  IF lines = <<>> THEN <<>>
  ELSE IF Len(lines) = 1 THEN lines[1]
  ELSE lines[1] \o <<"\n">> \o JoinLines(Tail(lines))

----------------------------------------------------------------------------
\* Session.processExpectRules: the rules are tried in declared order against
\* the content as rewritten so far.  A matching rule with send-text writes it
\* once; a matching rule with send-text or replacement rewrites the content.
\* Returns the content, whether it was rewritten, and the texts sent.

RECURSIVE ExpectFrom(_, _, _, _, _)
ExpectFrom(rules, k, content, handled, sends) ==
  IF k > Len(rules) THEN [content |-> content, handled |-> handled, sends |-> sends]
  ELSE LET rule == rules[k] IN
       IF MatchString(rule.Pattern, content)
       THEN LET snd == IF rule.Send # "" THEN Append(sends, rule.Send) ELSE sends
                rewrite == rule.Replace # Empty \/ rule.Send # ""
            IN ExpectFrom(rules, k + 1,
                          IF rewrite
                          THEN ReplaceAllString(rule.Pattern, content, rule.Replace)
                          ELSE content,
                          handled \/ rewrite, snd)
       ELSE ExpectFrom(rules, k + 1, content, handled, sends)

\* Mutant of processExpectRules: a matching rule with send-text writes it once
\* for every occurrence of its pattern in the content.
processExpectRulesPerOccurrence(content, model) ==
  LET r == ExpectFrom(model.Expect, 1, content, FALSE, <<>>)
      extra == SelectSeq(content,
                         LAMBDA t : \E k \in 1..Len(model.Expect) :
                                      model.Expect[k].Send # "" /\ model.Expect[k].Pattern = t)
  IN [r EXCEPT !.sends = IF Len(extra) > 1 THEN [k \in 1..Len(extra) |-> " "] ELSE @]

processExpectRules(content, model) == ExpectFrom(model.Expect, 1, content, FALSE, <<>>)

\* Mutant of ReadChunk: the prompt is tested on the buffer as it was read, before
\* the rules rewrote it.
ReadChunkTestsRawBuffer(buf, chunk, model) ==
  LET r == processExpectRules(buf \o chunk, model)
      buffered == IF r.handled THEN r.content ELSE buf \o chunk
  IN [text |-> buffered, sends |-> r.sends,
      done |-> MatchString(model.Prompt, buf \o chunk)]

\* The body of the loop of Session.readUntil after a Read that delivered chunk to a
\* buffer holding buf: the chunk is appended, the rules run on the whole buffer, a
\* rewritten content replaces the buffer, and the prompt is tested on the buffer.
\* Returns the buffer, the texts sent, and whether the loop ends.
ReadChunk(buf, chunk, model) ==
  LET r == processExpectRules(buf \o chunk, model)
      buffered == IF r.handled THEN r.content ELSE buf \o chunk
  IN [text |-> buffered, sends |-> r.sends, done |-> MatchString(model.Prompt, buffered)]

\* Mutant of BufferReset: readUntil goes on with the buffer of the last cycle.
BufferKept(buf) == buf

\* s.buffer.Reset() at the start of readUntil.
BufferReset(buf) == Empty

RECURSIVE ReadLoop(_, _, _)
\* The loop of readUntil on a stream that delivers the chunks one Read at a time
\* and then ends: a pass that meets the prompt ends the loop, and so does the end
\* of the stream.  Returns the buffer and every text sent, in order.
ReadLoop(buf, chunks, model) ==
  IF chunks = <<>> THEN [text |-> buf, sends |-> <<>>, done |-> FALSE]
  ELSE LET r == ReadChunk(buf, Head(chunks), model) IN
       IF r.done THEN r
       ELSE LET rest == ReadLoop(r.text, Tail(chunks), model)
            IN [text |-> rest.text, sends |-> r.sends \o rest.sends, done |-> rest.done]

\* Session.readUntil called with the buffer as the last cycle left it.
ReadCycle(buf, chunks, model) == ReadLoop(BufferReset(buf), chunks, model)

----------------------------------------------------------------------------
\* Output filtering pipeline (package executor).

RECURSIVE applySecrets(_, _)
applySecrets(output, secrets) ==
  IF secrets = <<>> THEN output
  ELSE applySecrets(ReplaceAllString(Head(secrets).Pattern, output, Head(secrets).Replace),
                    Tail(secrets))

RECURSIVE applyExpectReplacements(_, _)
applyExpectReplacements(output, expects) ==
  IF expects = <<>> THEN output
  ELSE LET expect == Head(expects) IN
       IF expect.Replace = Empty /\ expect.Send # ""
       THEN applyExpectReplacements(output, Tail(expects))
       ELSE applyExpectReplacements(
              ReplaceAllString(expect.Pattern, output, expect.Replace), Tail(expects))

\* Mutant of processOutput: the raw output skips the secret rules.
processOutputUnredacted(rawOutput, model) ==
  applyExpectReplacements(rawOutput, model.Expect)

\* With patterns that compile neither step returns an error.
processOutput(rawOutput, model) ==
  applyExpectReplacements(applySecrets(rawOutput, model.Secrets), model.Expect)

commentAllLines(output, prefix) ==
  IF output = Empty \/ prefix = Empty THEN output
  ELSE LET lines == SplitLines(output) IN
       JoinLines([k \in 1..Len(lines) |->
                    IF lines[k] # Empty THEN prefix \o lines[k] ELSE lines[k]])

\* Mutant of commentFirstLastLines: the last non-empty line is prefixed even when
\* it is the first one.
commentFirstLastLinesTwice(output, prefix) ==
  IF output = Empty \/ prefix = Empty THEN output
  ELSE LET lines == SplitLines(output)
           nonEmpty == {k \in 1..Len(lines) : lines[k] # Empty}
       IN IF nonEmpty = {} THEN output
          ELSE LET firstIdx == CHOOSE k \in nonEmpty : \A m \in nonEmpty : k <= m
                   lastIdx == CHOOSE k \in nonEmpty : \A m \in nonEmpty : k >= m
               IN JoinLines([k \in 1..Len(lines) |->
                               (IF k = firstIdx THEN prefix ELSE Empty)
                                 \o (IF k = lastIdx THEN prefix ELSE Empty)
                                 \o lines[k]])

commentFirstLastLines(output, prefix) ==
  IF output = Empty \/ prefix = Empty THEN output
  ELSE LET lines == SplitLines(output)
           nonEmpty == {k \in 1..Len(lines) : lines[k] # Empty}
       IN IF nonEmpty = {} THEN output
          ELSE LET firstIdx == CHOOSE k \in nonEmpty : \A m \in nonEmpty : k <= m
                   lastIdx == CHOOSE k \in nonEmpty : \A m \in nonEmpty : k >= m
               IN JoinLines([k \in 1..Len(lines) |->
                               IF k = firstIdx \/ k = lastIdx
                               THEN prefix \o lines[k] ELSE lines[k]])

RECURSIVE CommentParts(_, _)
\* executor.Execute, first loop: the non-empty processed annotation outputs.
CommentParts(outputs, model) ==
  IF outputs = <<>> THEN <<>>
  ELSE LET processed == commentAllLines(processOutput(Head(outputs), model), model.Comment)
       IN (IF processed # Empty THEN <<processed>> ELSE <<>>)
            \o CommentParts(Tail(outputs), model)

RECURSIVE CommandParts(_, _)
\* executor.Execute, second loop: the non-empty processed capture outputs.
CommandParts(outputs, model) ==
  IF outputs = <<>> THEN <<>>
  ELSE LET processed == commentFirstLastLines(processOutput(Head(outputs), model),
                                              model.Comment)
       IN (IF processed # Empty THEN <<processed>> ELSE <<>>)
            \o CommandParts(Tail(outputs), model)

\* executor.Execute after a successful ConnectAndExecute: Result.Output.
FilteredOutput(commentsOutputs, commandsOutputs, model) ==
  JoinLines(CommentParts(commentsOutputs, model) \o CommandParts(commandsOutputs, model))

\* config.Device.EffectiveTimeout, in seconds: the override of the device, or 30 s
\* for a device that has none (Timeout == 0).
DefaultTimeout == 30

EffectiveTimeout(timeout) == IF timeout = 0 THEN DefaultTimeout ELSE timeout

----------------------------------------------------------------------------
\* State.

VARIABLES
  devModel,        \* routerdb.Devices[d].Model
  devPath,         \* routerdb.Devices[d]: the file <output>/<group>/<name> it names
  workers,         \* the -workers option
  badPattern,      \* the kind of pattern of models.yaml that regexp cannot compile
  mainPc,          \* position of main
  report,          \* main: the lines printed, the counters, the exit status
  call,            \* a function of the program applied on its own: name and arguments
  ret,             \* what that application returned
  i,               \* executeBackups: index of the device loop
  wg,              \* sync.WaitGroup counter
  sem,             \* number of tokens in the semaphore channel
  resultCh,        \* buffered result channel, capacity len(Devices)
  chClosed,        \* close(resultCh) has run
  results,         \* the slice executeBackups returns
  returned,        \* executeBackups has returned
  pc,              \* position of each device's goroutine
  pos,             \* 0: initial prompt; p > 0: p-th command of the model
  buffer,          \* Session.buffer
  nread,           \* chunks delivered to the current readUntil call
  stdin,           \* everything written to the device stream, in order
  readsOk,         \* number of readUntil calls that returned a nil error
  commentsOutputs, \* ConnectAndExecute: captured annotation outputs
  commandsOutputs, \* ConnectAndExecute: captured capture outputs
  cli,             \* SSHClient: connection, client, session, Close calls
  fault,           \* the error the device or the network raised, "none" so far
  eof,             \* stdout.Read has reported io.EOF to readUntil
  result,          \* the goroutine's *executor.Result
  writeCalls,      \* number of writer.Write calls for the device
  writeErr,        \* writer.Write returned an error to the goroutine of the device
  files,           \* per path <output>/<group>/<name>: whether it exists, its content
  modelCache       \* per shared *Model: promptRegex and the regex field of each rule

orchVars == <<i, wg, sem, resultCh, chClosed, results, returned>>
sessVars == <<pos, buffer, nread, stdin, readsOk, commentsOutputs, commandsOutputs, cli,
             fault, eof>>
taskVars == <<pc, result, writeCalls, files, writeErr>>
mainVars == <<devModel, devPath, workers, badPattern, mainPc, report>>
fnVars == <<call, ret>>
vars == <<mainVars, fnVars, modelCache, orchVars, sessVars, taskVars>>

NoError == "none"

\* executor.Result without the device reference.
NoResult == [err |-> NoError, output |-> Empty]

NoFile == [exists |-> FALSE, content |-> Empty]

\* The files a device list can name: Join(outputDir, group, name) of its entries.
Paths == 1..NumDevices

\* The kinds of pattern in models.yaml; badPattern names the kind whose patterns
\* regexp.Compile rejects, "none" when all of them compile.
PatternKinds == {"prompt", "expect", "secret"}
BadKinds == {"none"} \cup PatternKinds

\* regexp.Compile accepts the patterns of a kind.
Compiles(kind) == badPattern # kind

\* A model as yaml.Unmarshal leaves it: no pattern is compiled yet.
NoCache(m) == [prompt |-> "nil",
               expect |-> [k \in 1..Len(m.Expect) |-> "nil"],
               secrets |-> [k \in 1..Len(m.Secrets) |-> "nil"]]

\* main before the report loop: nothing printed, nothing counted.
NoReport == [lines |-> <<>>, success |-> 0, failed |-> 0, status |-> 0]

\* No function is applied on its own.
NoCall == [fn |-> "none", text |-> Empty, chunk |-> Empty, prefix |-> Empty,
           rules |-> <<>>, model |-> "none", comments |-> <<>>, commands |-> <<>>,
           timeout |-> 0, flag |-> 0, chunks |-> <<>>]
NoRet == [fn |-> "none", text |-> Empty, sends |-> <<>>, done |-> FALSE, num |-> 0]

NewSSHClient == [dialed |-> FALSE, conn |-> "nil", client |-> "nil", session |-> "nil",
                 closeCalls |-> 0]

Model(d) == Models[devModel[d]]

\* Mutant of CommandList: the capture commands run before the annotation commands.
CommandListCapturesFirst(m) == m.PostLogin \o m.Commands \o m.Comments

\* The commands of a model in the order Connect and ConnectAndExecute run them.
CommandList(m) == m.PostLogin \o m.Comments \o m.Commands

\* Which loop a position belongs to.
PhaseOf(m, p) ==
  IF p = 0 THEN "init"
  ELSE IF p <= Len(m.PostLogin) THEN "postlogin"
  ELSE IF p <= Len(m.PostLogin) + Len(m.Comments) THEN "comments"
  ELSE "commands"

\* The process has started: main has parsed its flags, nothing has run yet.
Start ==
  /\ mainPc = "load"
  /\ modelCache = [name \in ModelNames |-> NoCache(Models[name])]
  /\ report = NoReport
  /\ i = 1
  /\ wg = 0
  /\ sem = 0
  /\ resultCh = <<>>
  /\ chClosed = FALSE
  /\ results = <<>>
  /\ returned = FALSE
  /\ pc = [d \in Devices |-> "idle"]
  /\ pos = [d \in Devices |-> 0]
  /\ buffer = [d \in Devices |-> Empty]
  /\ nread = [d \in Devices |-> 0]
  /\ stdin = [d \in Devices |-> <<>>]
  /\ readsOk = [d \in Devices |-> 0]
  /\ commentsOutputs = [d \in Devices |-> <<>>]
  /\ commandsOutputs = [d \in Devices |-> <<>>]
  /\ cli = [d \in Devices |-> NewSSHClient]
  /\ fault = [d \in Devices |-> NoError]
  /\ eof = [d \in Devices |-> FALSE]
  /\ result = [d \in Devices |-> NoResult]
  /\ writeCalls = [d \in Devices |-> 0]
  /\ writeErr = [d \in Devices |-> FALSE]
  /\ files = [p \in Paths |-> NoFile]

\* The run is the program's own: no function is applied apart from it.
NoCalls ==
  /\ call = NoCall
  /\ ret = NoRet

\* Device lists whose entries name different files.
Init ==
  /\ devModel \in [Devices -> OrchModelRefs]
  /\ devPath = [d \in Devices |-> d]
  /\ workers \in 1..MaxWorkers
  /\ badPattern \in BadKinds
  /\ Start
  /\ NoCalls

----------------------------------------------------------------------------
\* main: loading the configuration, the report loop, the exit status.

\* Mutant of ValidModel: the patterns of the secret rules are not compiled.
ValidModelSkipsSecrets(m) ==
  /\ m.Prompt # ""
  /\ Compiles("prompt")
  /\ \A k \in 1..Len(m.Expect) : Compiles("expect")
  /\ Len(m.Commands) # 0

\* Model.PromptRegex on the shared *Model: the first successful call stores the
\* compiled pattern in m.promptRegex, later calls find it there.
PromptRegex(cache) == [cache EXCEPT !.prompt = "compiled"]

\* "for _, rule := range rules { rule.Regex() }": the loop variable is a copy of
\* the slice element, so Regex stores the compiled pattern in the copy and the
\* regex fields of the shared rules stay as they were.
RangeRegex(cache) == cache

\* Mutant of Validated: validateModelFile works on a copy of each model.
ValidatedOnCopy(cache) == cache

\* What validateModelFile leaves in a shared model that it accepts: the map holds
\* pointers, so PromptRegex fills m.promptRegex; the rules are ranged over by value.
Validated(cache) == RangeRegex(PromptRegex(cache))

\* config.validateModelFile for one model: a prompt that compiles, rules whose
\* patterns compile, at least one capture command.
ValidModel(m) ==
  /\ m.Prompt # ""
  /\ Compiles("prompt")
  /\ \A k \in 1..Len(m.Expect) : Compiles("expect")
  /\ \A k \in 1..Len(m.Secrets) : Compiles("secret")
  /\ Len(m.Commands) # 0

\* config.validateModelFile returns nil.
validateModelFile ==
  /\ ModelNames # {}
  /\ \A name \in ModelNames : ValidModel(Models[name])

\* main up to the call of executeBackups: LoadRouterDB (the device lists of Init
\* are the accepted ones), LoadModelFile, EnsureDir.  An error ends the process
\* with status 1 before any device is looked at.
LoadConfig ==
  /\ mainPc = "load"
  /\ IF validateModelFile
     THEN \/ /\ mainPc' = "backup"
             /\ report' = report
          \/ /\ mainPc' = "exit"
             /\ report' = [report EXCEPT !.status = 1]
     ELSE /\ mainPc' = "exit"
          /\ report' = [report EXCEPT !.status = 1]
  /\ modelCache' = IF validateModelFile
                   THEN [name \in ModelNames |-> Validated(modelCache[name])]
                   ELSE modelCache
  /\ UNCHANGED <<devModel, devPath, workers, badPattern, fnVars, orchVars, sessVars,
                 taskVars>>

RECURSIVE CountResults(_, _)
\* The report loop's counters: the Results with an error (failed) or without.
CountResults(rs, withError) ==
  IF rs = <<>> THEN 0
  ELSE (IF (Head(rs).err # NoError) = withError THEN 1 ELSE 0)
         + CountResults(Tail(rs), withError)

\* The line the report loop prints for a Result.
ReportLine(r) == [device |-> r.device, kind |-> IF r.err # NoError THEN "FAIL" ELSE "OK"]

\* Mutant of ExitStatus: the process ends with status 0 whatever was counted.
ExitStatusIgnoresFailures(failed) == 0

\* "if failed > 0 { os.Exit(1) }"; falling off main exits with status 0.
ExitStatus(failed) == IF failed > 0 THEN 1 ELSE 0

\* main after executeBackups has returned: one line per Result, the summary, exit.
Report ==
  /\ mainPc = "backup"
  /\ returned
  /\ report' = [lines |-> [k \in 1..Len(results) |-> ReportLine(results[k])],
                success |-> CountResults(results, FALSE),
                failed |-> CountResults(results, TRUE),
                status |-> ExitStatus(CountResults(results, TRUE))]
  /\ mainPc' = "exit"
  /\ UNCHANGED <<devModel, devPath, workers, badPattern, fnVars, modelCache, orchVars,
                 sessVars,
                 taskVars>>

----------------------------------------------------------------------------
\* executeBackups: the device loop, the closer goroutine, the collection loop.

\* resultCh <- r.  The channel is buffered: the send proceeds while there is room.
ChanSend(r) ==
  /\ Len(resultCh) < NumDevices
  /\ ~chClosed
  /\ resultCh' = Append(resultCh, r)

\* Mutant of DeviceLoop: a device with an unknown model is skipped without a Result.
DeviceLoopDropsUnknown ==
  /\ mainPc = "backup"
  /\ i <= NumDevices
  /\ i' = i + 1
  /\ IF devModel[i] \notin ModelNames
     THEN /\ pc' = [pc EXCEPT ![i] = "skipped"]
          /\ UNCHANGED <<wg, resultCh>>
     ELSE /\ wg' = wg + 1
          /\ pc' = [pc EXCEPT ![i] = "acquire"]
          /\ resultCh' = resultCh
  /\ UNCHANGED <<mainVars, fnVars, modelCache, sem, chClosed, results, returned, sessVars,
                 result, writeCalls, files, writeErr>>

\* One iteration of "for i := range routerdb.Devices".
DeviceLoop ==
  /\ mainPc = "backup"
  /\ i <= NumDevices
  /\ i' = i + 1
  /\ IF devModel[i] \notin ModelNames
     THEN /\ ChanSend([device |-> i, err |-> "config", output |-> Empty])
          /\ pc' = [pc EXCEPT ![i] = "skipped"]
          /\ wg' = wg
     ELSE /\ wg' = wg + 1
          /\ pc' = [pc EXCEPT ![i] = "acquire"]
          /\ resultCh' = resultCh
  /\ UNCHANGED <<mainVars, fnVars, modelCache, sem, chClosed, results, returned, sessVars,
                 result, writeCalls, files, writeErr>>

\* Mutant of WaitAndClose: the channel is closed without waiting for the tasks.
CloseWithoutWait ==
  /\ i > NumDevices
  /\ ~chClosed
  /\ chClosed' = TRUE
  /\ UNCHANGED <<mainVars, fnVars, modelCache, i, wg, sem, resultCh, results, returned,
                 sessVars, taskVars>>

\* go func() { wg.Wait(); close(resultCh) }()
WaitAndClose ==
  /\ i > NumDevices
  /\ wg = 0
  /\ ~chClosed
  /\ chClosed' = TRUE
  /\ UNCHANGED <<mainVars, fnVars, modelCache, i, wg, sem, resultCh, results, returned,
                 sessVars, taskVars>>

\* for r := range resultCh { results = append(results, r) }
Collect ==
  /\ i > NumDevices
  /\ ~returned
  /\ resultCh # <<>>
  /\ results' = Append(results, Head(resultCh))
  /\ resultCh' = Tail(resultCh)
  /\ UNCHANGED <<mainVars, fnVars, modelCache, i, wg, sem, chClosed, returned, sessVars, taskVars>>

\* The range loop ends when the channel is closed and drained.
Return ==
  /\ i > NumDevices
  /\ ~returned
  /\ resultCh = <<>>
  /\ chClosed
  /\ returned' = TRUE
  /\ UNCHANGED <<mainVars, fnVars, modelCache, i, wg, sem, resultCh, chClosed, results,
                 sessVars, taskVars>>

----------------------------------------------------------------------------
\* The per-device goroutine of executeBackups.

\* Mutant of Acquire: the goroutine starts without waiting for a free slot.
AcquireUnbounded(d) ==
  /\ pc[d] = "acquire"
  /\ sem' = sem + 1
  /\ pc' = [pc EXCEPT ![d] = "connect"]
  /\ UNCHANGED <<mainVars, fnVars, modelCache, i, wg, resultCh, chClosed, results, returned,
                 sessVars, result, writeCalls, files, writeErr>>

\* sem <- struct{}{}
Acquire(d) ==
  /\ pc[d] = "acquire"
  /\ sem < workers
  /\ sem' = sem + 1
  /\ pc' = [pc EXCEPT ![d] = "connect"]
  /\ UNCHANGED <<mainVars, fnVars, modelCache, i, wg, resultCh, chClosed, results, returned,
                 sessVars, result, writeCalls, files, writeErr>>

\* SSHClient.Close: closes the session and the client that exist.
Close(c) ==
  [c EXCEPT !.session = IF @ = "nil" THEN @ ELSE "closed",
            !.client = IF @ = "nil" THEN @ ELSE "closed",
            !.conn = IF c.client = "nil" THEN @ ELSE "closed",
            !.closeCalls = @ + 1]

\* Mutant of ShouldWrite: the output is written whatever the Result.
ShouldWriteAlways(r) == TRUE

\* main.go: "if result.Error == nil" guards writer.Write.
ShouldWrite(r) == r.err = NoError

\* executor.Execute returns r: the goroutine goes on to the write or to the send.
ExecuteReturns(d, r, c) ==
  /\ result' = [result EXCEPT ![d] = r]
  /\ cli' = [cli EXCEPT ![d] = c]
  /\ pc' = [pc EXCEPT ![d] = IF ShouldWrite(r) THEN "write" ELSE "deliver"]
  /\ buffer' = [buffer EXCEPT ![d] = Empty]
  /\ nread' = [nread EXCEPT ![d] = 0]
  /\ commentsOutputs' = [commentsOutputs EXCEPT ![d] = <<>>]
  /\ commandsOutputs' = [commandsOutputs EXCEPT ![d] = <<>>]

\* An error inside Connect or ConnectAndExecute: the client is closed (explicitly in
\* Connect, by the deferred Close in ConnectAndExecute), the captures are dropped
\* and executor.Execute returns a Result that carries only the error.
ExecuteFails(d, e, c) == ExecuteReturns(d, [err |-> e, output |-> Empty], c)

\* SSHClient.Connect up to NewSession(stdin, stdout, ...): dial, handshake, session,
\* pty, pipes, shell.  Each stage can fail; the cleanup differs per stage.
Connect(d) ==
  /\ pc[d] = "connect"
  /\ \E stage \in {"dial", "handshake", "session", "shell", "ok"} :
       LET dialed == [cli[d] EXCEPT !.dialed = TRUE] IN
       /\ fault' = [fault EXCEPT ![d] = IF stage = "ok" THEN @ ELSE "connect"]
       /\ CASE stage = "dial" ->
                 /\ ExecuteFails(d, "connect", dialed)
                 /\ UNCHANGED pos
            [] stage = "handshake" ->
                 /\ ExecuteFails(d, "connect", [dialed EXCEPT !.conn = "closed"])
                 /\ UNCHANGED pos
            [] stage = "session" ->
                 /\ ExecuteFails(d, "connect",
                                 [dialed EXCEPT !.conn = "closed", !.client = "closed"])
                 /\ UNCHANGED pos
            [] stage = "shell" ->
                 /\ ExecuteFails(d, "connect",
                                 Close([dialed EXCEPT !.conn = "open", !.client = "open",
                                                      !.session = "open"]))
                 /\ UNCHANGED pos
            [] stage = "ok" ->
                 /\ cli' = [cli EXCEPT ![d] = [dialed EXCEPT !.conn = "open",
                                                             !.client = "open",
                                                             !.session = "open"]]
                 /\ pos' = [pos EXCEPT ![d] = 0]
                 /\ buffer' = [buffer EXCEPT ![d] = Empty]
                 /\ nread' = [nread EXCEPT ![d] = 0]
                 /\ pc' = [pc EXCEPT ![d] = "read"]
                 /\ UNCHANGED <<result, commentsOutputs, commandsOutputs>>
  /\ UNCHANGED <<mainVars, fnVars, modelCache, orchVars, stdin, readsOk, eof, writeCalls, files,
                 writeErr>>

\* readUntil returned (text, nil) for the command at pos[d]: the capture is kept if
\* it belongs to an annotation or capture command, and the next command follows.
ReadSucceeds(d, text) ==
  LET m == Model(d)
      phase == PhaseOf(m, pos[d])
  IN /\ readsOk' = [readsOk EXCEPT ![d] = @ + 1]
     /\ buffer' = [buffer EXCEPT ![d] = text]
     /\ nread' = [nread EXCEPT ![d] = 0]
     /\ commentsOutputs' = [commentsOutputs EXCEPT ![d] =
                              IF phase = "comments" THEN Append(@, text) ELSE @]
     /\ commandsOutputs' = [commandsOutputs EXCEPT ![d] =
                              IF phase = "commands" THEN Append(@, text) ELSE @]
     /\ IF pos[d] < Len(CommandList(m))
        THEN /\ pos' = [pos EXCEPT ![d] = @ + 1]
             /\ pc' = [pc EXCEPT ![d] = "send"]
        ELSE /\ pos' = pos
             /\ pc' = [pc EXCEPT ![d] = "prelogout"]
     /\ UNCHANGED <<cli, result>>

\* Mutant of ReadFails: the error is returned without closing the client.
ReadFailsNoClose(d, e) ==
  /\ ExecuteFails(d, e, cli[d])
  /\ UNCHANGED <<pos, readsOk>>

\* Mutant of ReadFails: the error of the read is dropped and the sequence goes on.
ReadFailsIgnored(d, e) == ReadSucceeds(d, buffer[d])

\* readUntil returned an error.
ReadFails(d, e) ==
  /\ ExecuteFails(d, e, Close(cli[d]))
  /\ UNCHANGED <<pos, readsOk>>

\* The rules of a model that the session and the filter can use: a rule whose
\* pattern does not compile is passed over by processExpectRules.
Compiled(m) == [m EXCEPT !.Expect = IF Compiles("expect") THEN @ ELSE <<>>]

\* applySecrets or applyExpectReplacements returns an error for the outputs of a
\* model: a secret rule, or an expect rule that is not send-only, does not compile.
FilterFails(m) ==
  \/ m.Secrets # <<>> /\ ~Compiles("secret")
  \/ /\ ~Compiles("expect")
     /\ \E k \in 1..Len(m.Expect) : ~(m.Expect[k].Replace = Empty /\ m.Expect[k].Send # "")

\* One iteration of the loop of Session.readUntil, with what stdout.Read does:
\* it delivers a chunk, reports end of stream, reports a fault, or never returns.
\* Whether the deadline has passed when the loop tests it is the clock's choice.
\* A stream that has ended keeps reporting end of stream.
readUntil(d, chunks) ==
  /\ \/ /\ ReadFails(d, "timeout")
        /\ fault' = [fault EXCEPT ![d] = "timeout"]
        /\ UNCHANGED <<stdin, eof>>
     \/ /\ ~eof[d]
        /\ pc' = [pc EXCEPT ![d] = "blocked"]
        /\ UNCHANGED <<sessVars, result>>
     \/ /\ ReadSucceeds(d, buffer[d])
        /\ eof' = [eof EXCEPT ![d] = TRUE]
        /\ UNCHANGED <<stdin, fault>>
     \/ /\ ~eof[d]
        /\ ReadFails(d, "read")
        /\ fault' = [fault EXCEPT ![d] = "read"]
        /\ UNCHANGED <<stdin, eof>>
     \/ \E chunk \in chunks :
          /\ ~eof[d]
          /\ nread[d] < MaxReads
          /\ LET r == ReadChunk(buffer[d], chunk, Compiled(Model(d)))
                 sent == [k \in 1..Len(r.sends) |-> [text |-> r.sends[k], nl |-> FALSE]]
             IN /\ stdin' = [stdin EXCEPT ![d] = @ \o sent]
                /\ UNCHANGED <<fault, eof>>
                /\ IF r.done
                   THEN ReadSucceeds(d, r.text)
                   ELSE /\ buffer' = [buffer EXCEPT ![d] = r.text]
                        /\ nread' = [nread EXCEPT ![d] = @ + 1]
                        /\ UNCHANGED <<pos, readsOk, commentsOutputs, commandsOutputs,
                                       cli, result, pc>>

\* Session.ReadUntilPrompt in the goroutine of d: without a compiled prompt pattern
\* it returns the error of PromptRegex, otherwise it runs the loop of readUntil.
ReadStep(d, chunks) ==
  /\ pc[d] = "read"
  /\ IF Compiles("prompt")
     THEN readUntil(d, chunks)
     ELSE /\ ReadFails(d, "pattern")
          /\ fault' = [fault EXCEPT ![d] = "pattern"]
          /\ UNCHANGED <<stdin, eof>>
  /\ modelCache' = [modelCache EXCEPT ![devModel[d]] =
                      IF Compiles("prompt") THEN RangeRegex(PromptRegex(@)) ELSE @]
  /\ UNCHANGED <<mainVars, fnVars, orchVars, writeCalls, files, writeErr>>

\* Session.Execute: SendLine(cmd), then ReadUntilPrompt, which starts by resetting
\* the buffer.  A failed write aborts the command.
SendCmd(d) ==
  /\ pc[d] = "send"
  /\ LET cmd == CommandList(Model(d))[pos[d]] IN
     \/ /\ stdin' = [stdin EXCEPT ![d] = Append(@, [text |-> cmd, nl |-> TRUE])]
        /\ buffer' = [buffer EXCEPT ![d] = BufferReset(@)]
        /\ nread' = [nread EXCEPT ![d] = 0]
        /\ pc' = [pc EXCEPT ![d] = "read"]
        /\ UNCHANGED <<pos, readsOk, commentsOutputs, commandsOutputs, cli, result,
                       fault>>
     \/ /\ ExecuteFails(d, "send", Close(cli[d]))
        /\ fault' = [fault EXCEPT ![d] = "send"]
        /\ UNCHANGED <<pos, readsOk, stdin>>
  /\ UNCHANGED <<mainVars, fnVars, modelCache, orchVars, eof, writeCalls, files, writeErr>>

\* Session.SendLine inside ExecutePreLogout: the write on stdin succeeds or fails.
SendLineErrors == {NoError, "send"}

\* Session.ExecutePreLogout: nothing is sent, and nil returned, when the model has
\* no pre-logout command; otherwise the error of the one SendLine is returned.
ExecutePreLogout(d, m, err) ==
  /\ err \in IF m.PreLogout = "" THEN {NoError} ELSE SendLineErrors
  /\ stdin' = IF m.PreLogout # "" /\ err = NoError
              THEN [stdin EXCEPT ![d] = Append(@, [text |-> m.PreLogout, nl |-> TRUE])]
              ELSE stdin

\* Mutant of DiscardError: a failed pre-logout write fails the backup.
PropagateError(err, r) == IF err = NoError THEN r ELSE [err |-> err, output |-> Empty]

\* "_ = session.ExecutePreLogout()": the error is dropped and ConnectAndExecute
\* goes on to return what it would have returned.
DiscardError(err, r) == r

\* The end of ConnectAndExecute and of executor.Execute: the pre-logout command
\* is written if there is one (its error is dropped), the deferred Close runs and
\* the captures are filtered into Result.Output.
PreLogout(d) ==
  /\ pc[d] = "prelogout"
  /\ LET m == Model(d) IN
     \E err \in SendLineErrors :
       /\ ExecutePreLogout(d, m, err)
       /\ ExecuteReturns(d, DiscardError(err,
                            IF FilterFails(m)
                            THEN [err |-> "pattern", output |-> Empty]
                            ELSE [err |-> NoError,
                                  output |-> FilteredOutput(commentsOutputs[d],
                                                            commandsOutputs[d], m)]),
                       Close(cli[d]))
  /\ modelCache' = [modelCache EXCEPT ![devModel[d]] = RangeRegex(@)]
  /\ UNCHANGED <<mainVars, fnVars, orchVars, pos, readsOk, fault, eof, writeCalls,
                 files, writeErr>>

\* Mutant of WriteOutput: a failed write leaves the Result as executor.Execute
\* returned it.
WriteOutputDropsError(d) ==
  /\ pc[d] = "write"
  /\ writeCalls' = [writeCalls EXCEPT ![d] = @ + 1]
  /\ pc' = [pc EXCEPT ![d] = "deliver"]
  /\ result' = result
  /\ \/ /\ files' = [files EXCEPT ![devPath[d]] =
                                  [exists |-> TRUE, content |-> result[d].output]]
        /\ writeErr' = writeErr
     \/ /\ files' = files
        /\ writeErr' = [writeErr EXCEPT ![d] = TRUE]
  /\ UNCHANGED <<mainVars, fnVars, modelCache, orchVars, sessVars>>

\* writer.Write(d.Name, d.Group, result.Output): MkdirAll, then WriteFile.  A failed
\* WriteFile may already have created or truncated the file.
WriteOutput(d) ==
  /\ pc[d] = "write"
  /\ writeCalls' = [writeCalls EXCEPT ![d] = @ + 1]
  /\ pc' = [pc EXCEPT ![d] = "deliver"]
  /\ \/ /\ files' = [files EXCEPT ![devPath[d]] =
                                  [exists |-> TRUE, content |-> result[d].output]]
        /\ result' = result
        /\ writeErr' = writeErr
     \/ /\ files' = files
        /\ result' = [result EXCEPT ![d].err = "write"]
        /\ writeErr' = [writeErr EXCEPT ![d] = TRUE]
     \/ /\ files' = [files EXCEPT ![devPath[d]] = [exists |-> TRUE, content |-> Empty]]
        /\ result' = [result EXCEPT ![d].err = "write"]
        /\ writeErr' = [writeErr EXCEPT ![d] = TRUE]
  /\ UNCHANGED <<mainVars, fnVars, modelCache, orchVars, sessVars>>

\* resultCh <- result
Deliver(d) ==
  /\ pc[d] = "deliver"
  /\ ChanSend([device |-> d, err |-> result[d].err, output |-> result[d].output])
  /\ pc' = [pc EXCEPT ![d] = "release"]
  /\ UNCHANGED <<mainVars, fnVars, modelCache, i, wg, sem, chClosed, results, returned,
                 sessVars, result, writeCalls, files, writeErr>>

\* Mutant of Release: the goroutine ends without receiving from sem.
ReleaseKeepsSlot(d) ==
  /\ pc[d] = "release"
  /\ pc' = [pc EXCEPT ![d] = "exit"]
  /\ UNCHANGED <<mainVars, fnVars, modelCache, i, wg, sem, resultCh, chClosed, results,
                 returned, sessVars, result, writeCalls, files, writeErr>>

\* defer func() { <-sem }()
Release(d) ==
  /\ pc[d] = "release"
  /\ sem' = sem - 1
  /\ pc' = [pc EXCEPT ![d] = "exit"]
  /\ UNCHANGED <<mainVars, fnVars, modelCache, i, wg, resultCh, chClosed, results, returned,
                 sessVars, result, writeCalls, files, writeErr>>

\* defer wg.Done()
Done(d) ==
  /\ pc[d] = "exit"
  /\ wg' = wg - 1
  /\ pc' = [pc EXCEPT ![d] = "done"]
  /\ UNCHANGED <<mainVars, fnVars, modelCache, i, sem, resultCh, chClosed, results, returned,
                 sessVars, result, writeCalls, files, writeErr>>

\* Every step of the goroutine of device d, on a stream that delivers chunks.
Task(d, chunks) ==
  \/ Acquire(d)
  \/ Connect(d)
  \/ ReadStep(d, chunks)
  \/ SendCmd(d)
  \/ PreLogout(d)
  \/ WriteOutput(d)
  \/ Deliver(d)
  \/ Release(d)
  \/ Done(d)

Main ==
  \/ LoadConfig
  \/ DeviceLoop
  \/ WaitAndClose
  \/ Collect
  \/ Return
  \/ Report

\* Orchestration: every device list over the model references, every worker limit.
Next ==
  \/ Main
  \/ \E d \in Devices : Task(d, PromptChunks)

Spec == Init /\ [][Next]_vars

\* The Go scheduler runs every goroutine that can take a step.
Fairness(chunks) ==
  /\ WF_vars(LoadConfig)
  /\ WF_vars(DeviceLoop)
  /\ WF_vars(WaitAndClose)
  /\ WF_vars(Collect)
  /\ WF_vars(Return)
  /\ WF_vars(Report)
  /\ \A d \in Devices : WF_vars(Task(d, chunks))

FairSpec == Spec /\ Fairness(PromptChunks)

\* config.validateRouterDB: every entry has a name, an address, a model, a group
\* and credentials.  No entry is compared with another one, so two entries may
\* name the same group and name, that is the same file.
validateRouterDB(paths) == \A d \in DOMAIN paths : paths[d] \in Paths

\* Every device list that validateRouterDB accepts.
RouterdbInit ==
  /\ devModel \in [Devices -> OrchModelRefs]
  /\ devPath \in {paths \in [Devices -> Paths] : validateRouterDB(paths)}
  /\ workers \in 1..MaxWorkers
  /\ badPattern \in BadKinds
  /\ Start
  /\ NoCalls

RouterdbSpec == RouterdbInit /\ [][Next]_vars

\* Single session: the first device has a loaded model, the others name a model
\* that is not loaded, one worker.
SessionInit ==
  /\ devModel \in [Devices -> ModelRefs]
  /\ workers = 1
  /\ devModel[1] \in ModelNames
  /\ \A d \in Devices \ {1} : devModel[d] = "unknown"
  /\ devPath = [d \in Devices |-> d]
  /\ badPattern \in BadKinds
  /\ Start
  /\ NoCalls

SessionNext ==
  \/ Main
  \/ \E d \in Devices : Task(d, SessionChunks)

SessionSpec == SessionInit /\ [][SessionNext]_vars

FairSessionSpec == SessionSpec /\ Fairness(SessionChunks)

----------------------------------------------------------------------------
\* The functions of the program applied on their own, to every argument of a
\* bounded set: call holds the function and its arguments, ret what it returned.

RECURSIVE SeqsUpTo(_, _)
\* The sequences over S of length at most n.
SeqsUpTo(S, n) ==
  IF n = 0 THEN {<<>>}
  ELSE LET shorter == SeqsUpTo(S, n - 1)
       IN shorter \cup {Append(t, e) : t \in shorter, e \in S}

\* Raw captures and filter inputs: ordinary output, secrets, pager markers, prompts
\* and line breaks.
Texts == SeqsUpTo({"x", "s", "M", "#", "\n"}, MaxText)

\* Multi-line texts for the line annotation.
LineTexts == SeqsUpTo({"x", "\n"}, MaxLineText)

\* The captures of a command: the short texts and two texts with an inner line.
Captures ==
  SeqsUpTo({"x", "s", "\n"}, MaxChunk)
    \cup {<<"x", "\n", "s", "\n", "x">>, <<"M", "\n", "x", "\n", "#">>}

\* What one Read delivers to the loop of readUntil.
Chunks == SeqsUpTo({"x", "s", "M", "#"}, MaxChunk) \ {Empty}

\* Expect rules: a pager rule that answers and deletes the marker; one that answers
\* and puts the prompt text in its place; a substitution whose result the rules
\* for "s" match; a substitution that yields the prompt text; a rule with neither
\* send-text nor replacement; a pager rule that answers and whose replacement-text
\* is the marker itself.
Rules ==
  { [Pattern |-> "M", Send |-> " ", Replace |-> Empty],
    [Pattern |-> "M", Send |-> " ", Replace |-> <<"M">>],
    [Pattern |-> "M", Send |-> " ", Replace |-> <<"#">>],
    [Pattern |-> "M", Send |-> "", Replace |-> <<"s">>],
    [Pattern |-> "s", Send |-> "", Replace |-> <<"#">>],
    [Pattern |-> "s", Send |-> "", Replace |-> Empty] }

RuleLists == SeqsUpTo(Rules, MaxRules)

\* A model with the given expect rules.
ModelWith(rules) == [Models.eos EXCEPT !.Expect = rules]

\* The buffers the loop of readUntil can hold when a Read returns: the empty one
\* of the reset, or what an earlier pass left without meeting the prompt.
Buffers(rules) ==
  {Empty} \cup {ReadChunk(Empty, c, ModelWith(rules)).text :
                  c \in {ch \in Chunks : ~ReadChunk(Empty, ch, ModelWith(rules)).done}}

\* What the buffer holds when a cycle starts: nothing, or the text the cycle
\* before it returned.
StaleBuffers == {Empty, <<"x", "#">>, <<"M", "#">>}

\* What the stream delivers in one cycle before it ends, one chunk per Read.
ChunkLists == SeqsUpTo(SessionChunks, MaxReads)

\* The -timeout option and the timeout field of a device, in seconds; 0 is a
\* device without the field.
FlagTimeouts == {10, 30, 60}
DeviceTimeouts == {0, 10, 30, 60}

\* call holds one function and one choice of its arguments.
SomeCall ==
  \/ \E t \in DeviceTimeouts, f \in FlagTimeouts :
       call = [NoCall EXCEPT !.fn = "EffectiveTimeout", !.timeout = t, !.flag = f]
  \/ \E t \in LineTexts, p \in {Empty, <<"!">>} :
       call = [NoCall EXCEPT !.fn = "commentFirstLastLines", !.text = t, !.prefix = p]
  \/ \E t \in Texts, r \in RuleLists :
       call = [NoCall EXCEPT !.fn = "applyExpectReplacements", !.text = t, !.rules = r]
  \/ \E n \in ModelNames :
       \E cm \in [1..Len(Models[n].Comments) -> Captures],
          cd \in [1..Len(Models[n].Commands) -> Captures] :
         call = [NoCall EXCEPT !.fn = "Execute", !.model = n, !.comments = cm,
                               !.commands = cd]
  \/ \E r \in RuleLists :
       \E b \in Buffers(r), c \in Chunks :
         call = [NoCall EXCEPT !.fn = "readUntil", !.rules = r, !.text = b, !.chunk = c]
  \/ \E r \in RuleLists, b \in StaleBuffers, cs \in ChunkLists :
       call = [NoCall EXCEPT !.fn = "readCycle", !.rules = r, !.text = b, !.chunks = cs]

FnInit ==
  /\ devModel = [d \in Devices |-> "unknown"]
  /\ devPath = [d \in Devices |-> d]
  /\ workers = 1
  /\ badPattern = "none"
  /\ Start
  /\ SomeCall
  /\ ret = NoRet

\* The function named by call has not returned yet.
Pending(fn) == call.fn = fn /\ ret.fn = "none"

\* A device's timeout is asked for.  main parses -timeout into defaultTimout and
\* passes it to nothing: EffectiveTimeout sees the device only.
CallEffectiveTimeout ==
  /\ Pending("EffectiveTimeout")
  /\ ret' = [NoRet EXCEPT !.fn = call.fn, !.num = EffectiveTimeout(call.timeout)]
  /\ UNCHANGED <<call, mainVars, modelCache, orchVars, sessVars, taskVars>>

CallCommentFirstLastLines ==
  /\ Pending("commentFirstLastLines")
  /\ ret' = [NoRet EXCEPT !.fn = call.fn,
                          !.text = commentFirstLastLines(call.text, call.prefix)]
  /\ UNCHANGED <<call, mainVars, modelCache, orchVars, sessVars, taskVars>>

CallApplyExpectReplacements ==
  /\ Pending("applyExpectReplacements")
  /\ ret' = [NoRet EXCEPT !.fn = call.fn,
                          !.text = applyExpectReplacements(call.text, call.rules)]
  /\ UNCHANGED <<call, mainVars, modelCache, orchVars, sessVars, taskVars>>

\* executor.Execute after ConnectAndExecute returned the captures.
CallExecute ==
  /\ Pending("Execute")
  /\ ret' = [NoRet EXCEPT !.fn = call.fn,
                          !.text = FilteredOutput(call.comments, call.commands,
                                                  Models[call.model])]
  /\ UNCHANGED <<call, mainVars, modelCache, orchVars, sessVars, taskVars>>

\* One pass of the loop of readUntil on a buffer and the chunk a Read delivered.
CallReadChunk ==
  /\ Pending("readUntil")
  /\ LET r == ReadChunk(call.text, call.chunk, ModelWith(call.rules))
     IN ret' = [NoRet EXCEPT !.fn = call.fn, !.text = r.text, !.sends = r.sends,
                             !.done = r.done]
  /\ UNCHANGED <<call, mainVars, modelCache, orchVars, sessVars, taskVars>>

\* One cycle of readUntil on a buffer that an earlier cycle has used.
CallReadCycle ==
  /\ Pending("readCycle")
  /\ LET r == ReadCycle(call.text, call.chunks, ModelWith(call.rules))
     IN ret' = [NoRet EXCEPT !.fn = call.fn, !.text = r.text, !.sends = r.sends,
                             !.done = r.done]
  /\ UNCHANGED <<call, mainVars, modelCache, orchVars, sessVars, taskVars>>

FnNext ==
  \/ CallEffectiveTimeout
  \/ CallCommentFirstLastLines
  \/ CallApplyExpectReplacements
  \/ CallExecute
  \/ CallReadChunk
  \/ CallReadCycle

FnSpec == FnInit /\ [][FnNext]_vars

----------------------------------------------------------------------------
\* Properties.

Loaded(d) == devModel[d] \in ModelNames

\* The goroutine of d holds a semaphore slot: it has passed "sem <- struct{}{}"
\* and its deferred "<-sem" has not run.
Holding(d) == pc[d] \in {"connect", "read", "blocked", "send", "prelogout", "write",
                         "deliver", "release"}

Active == {d \in Devices : Holding(d)}

\* executor.Execute has returned in the goroutine of d.
Executed(d) == pc[d] \in {"write", "deliver", "release", "exit", "done"}

\* The goroutine of d has sent its Result on resultCh.
Delivered(d) == pc[d] \in {"release", "exit", "done"}

\* The Results for d that are in the channel or already collected.
ResultsOf(d) ==
  LET all == resultCh \o results IN {k \in 1..Len(all) : all[k].device = d}

IsLine(e) == e.nl

\* The commands written to the stream of d (SendLine), in order.
Lines(d) ==
  LET w == SelectSeq(stdin[d], IsLine) IN [k \in 1..Len(w) |-> w[k].text]

IsPrefix(s, t) == Len(s) <= Len(t) /\ SubSeq(t, 1, Len(s)) = s

\* The declared order: post-connect, annotation, capture, pre-disconnect.
DeclaredOrder(m) ==
  m.PostLogin \o m.Comments \o m.Commands
    \o (IF m.PreLogout # "" THEN <<m.PreLogout>> ELSE <<>>)

\* C1: at most `workers` device tasks hold the admission semaphore at any time.
C1_AtMostWorkersActive == Cardinality(Active) <= workers /\ sem = Cardinality(Active)

\* C1 witness: the semaphore is full and another device waits for admission.
C1_Witness ==
  /\ Cardinality(Active) = workers
  /\ \E d \in Devices : pc[d] = "acquire"

\* C2: when executeBackups has returned, the returned slice holds exactly one
\* Result per device, the one that device produced, and no started task is still
\* before the delivery of its Result.
C2_OneResultPerDevice ==
  returned =>
    /\ Len(results) = NumDevices
    /\ \A d \in Devices :
         /\ \E k \in 1..Len(results) :
              /\ results[k].device = d
              /\ \A j \in 1..Len(results) : results[j].device = d => j = k
              /\ IF Loaded(d)
                 THEN results[k] = [device |-> d, err |-> result[d].err,
                                    output |-> result[d].output]
                 ELSE results[k].err = "config"
         /\ Loaded(d) => Delivered(d)

\* C2 witness: a run has returned with a success and a failure among its Results.
C2_Witness ==
  /\ returned
  /\ \E k \in 1..Len(results) : results[k].err = NoError
  /\ \E k \in 1..Len(results) : results[k].err \notin {NoError, "config"}

\* C3: every device task that waits for admission is eventually admitted, whatever
\* happens to the other devices.
C3_EventuallyAdmitted ==
  \A d \in Devices : (pc[d] = "acquire") ~> (pc[d] # "acquire")

\* C4: a device whose model is not loaded never dials, never takes a semaphore
\* slot and gets exactly one Result with a configuration error as soon as the
\* loop has passed it; the devices with a loaded model still deliver their own
\* Result.
C4_UnknownModel ==
  \A d \in Devices :
    ~Loaded(d) =>
      /\ ~cli[d].dialed
      /\ ~Holding(d)
      /\ pc[d] \in {"idle", "skipped"}
      /\ pc[d] = "skipped" =>
           /\ Cardinality(ResultsOf(d)) = 1
           /\ \A k \in ResultsOf(d) : (resultCh \o results)[k].err = "config"
      /\ returned => \A e \in Devices : Loaded(e) => Cardinality(ResultsOf(e)) = 1

\* C4 witness: a run has returned with a configuration error for one device and
\* a success for another.
C4_Witness ==
  /\ returned
  /\ \E d, e \in Devices :
       /\ ~Loaded(d) /\ Loaded(e)
       /\ \E k \in 1..Len(results) : results[k].device = d /\ results[k].err = "config"
       /\ \E k \in 1..Len(results) : results[k].device = e /\ results[k].err = NoError

\* C5: the commands written to a device's stream are a prefix of the declared
\* order (post-connect, annotation, capture, pre-disconnect), and the k-th
\* command is written only after k reads (the initial prompt and the k-1 earlier
\* commands) have returned without error.
C5_DeclaredOrder ==
  \A d \in Devices :
    Loaded(d) =>
      /\ IsPrefix(Lines(d), DeclaredOrder(Model(d)))
      /\ Len(Lines(d)) <= readsOk[d]

\* C5 witness: a device with post-connect, annotation, capture and pre-disconnect
\* commands has written all of them.
C5_Witness ==
  \E d \in Devices :
    /\ Loaded(d)
    /\ Model(d).PostLogin # <<>> /\ Model(d).Comments # <<>>
    /\ Model(d).PreLogout # ""
    /\ Lines(d) = DeclaredOrder(Model(d))

\* C6: when a task is about to deliver its Result, or has delivered it, nothing
\* of its transport is open, and if the session had been created then
\* SSHClient.Close has run.
C6_ClosedBeforeResult ==
  \A d \in Devices :
    pc[d] \in {"deliver", "release", "exit", "done"} =>
      /\ cli[d].session # "open"
      /\ cli[d].client # "open"
      /\ cli[d].conn # "open"
      /\ cli[d].session # "nil" => cli[d].closeCalls >= 1

\* C6 witness: a Result was delivered after a read of an established session
\* timed out.
C6_Witness ==
  \E d \in Devices :
    /\ Delivered(d)
    /\ result[d].err = "timeout"
    /\ cli[d].session = "closed"
    /\ cli[d].closeCalls = 1

\* C7: every call of read-until-prompt terminates.
C7_ReadTerminates ==
  \A d \in Devices : (pc[d] \in {"read", "blocked"}) ~> (pc[d] \notin {"read", "blocked"})

\* C8: a device whose stream ended before the prompt matched gets a failure
\* Result and no output file is written for it.
C8_EndOfStreamFails ==
  \A d \in Devices :
    (eof[d] /\ Executed(d)) =>
      /\ result[d].err # NoError
      /\ writeCalls[d] = 0
      /\ ~files[devPath[d]].exists

\* C9: once a step of a device task has failed, the error is in the device's
\* Result and nothing more is written to the device's stream.
C9_FailureAborts ==
  [][\A d \in Devices :
       /\ fault'[d] # NoError => result'[d].err = fault'[d]
       /\ fault[d] # NoError => stdin'[d] = stdin[d]]_vars

\* C9 witness: an annotation or capture command failed, so the pre-disconnect
\* command that the model declares was not written.
C9_Witness ==
  \E d \in Devices :
    /\ Loaded(d)
    /\ fault[d] \in {"timeout", "read", "send"}
    /\ pos[d] > Len(Model(d).PostLogin)
    /\ Model(d).PreLogout # ""
    /\ Len(Lines(d)) < Len(DeclaredOrder(Model(d)))
    /\ Delivered(d)

C11_WriteFailureReported ==
  [][\A d \in Devices :
       /\ (writeErr'[d] /\ ~writeErr[d]) =>
            /\ result[d].err = NoError
            /\ result'[d] = [err |-> "write", output |-> result[d].output]
            /\ \A e \in Devices \ {d} : result'[e] = result[e]
            /\ resultCh' = resultCh
            /\ results' = results
       /\ writeErr'[d] =>
            \A k \in 1..Len(resultCh' \o results') :
              (resultCh' \o results')[k].device = d
                => (resultCh' \o results')[k].err = "write"]_vars

\* C11 witness: the run has returned; one device's write failed and its collected
\* Result carries the write error, another device's Result is a success.
C11_Witness ==
  /\ returned
  /\ \E d, e \in Devices :
       /\ d # e
       /\ writeErr[d]
       /\ \E k \in 1..Len(results) : results[k].device = d /\ results[k].err = "write"
       /\ writeCalls[e] = 1 /\ ~writeErr[e]
       /\ \E k \in 1..Len(results) : results[k].device = e /\ results[k].err = NoError

\* The error a device ended with: the one in the Result of its goroutine, or the
\* configuration error of a device whose model is not loaded.
Outcome(d) == IF Loaded(d) THEN result[d].err ELSE "config"

\* C12: when main exits after executeBackups has returned, the exit status is 0
\* exactly if no device ended with an error; the report has exactly one line per
\* device, a FAIL line exactly for the devices that ended with an error; and the
\* success and failure counts add up to the number of devices.
C12_ExitStatusAndReport ==
  (mainPc = "exit" /\ returned) =>
    /\ report.status = 0 <=> \A d \in Devices : Outcome(d) = NoError
    /\ report.status \in {0, 1}
    /\ Len(report.lines) = NumDevices
    /\ \A d \in Devices :
         /\ Cardinality({k \in 1..Len(report.lines) : report.lines[k].device = d}) = 1
         /\ \A k \in 1..Len(report.lines) :
              report.lines[k].device = d
                => (report.lines[k].kind = "FAIL" <=> Outcome(d) # NoError)
    /\ report.success + report.failed = NumDevices
    /\ report.failed = Cardinality({d \in Devices : Outcome(d) # NoError})

\* C12 witness: main has exited with status 1 after a run in which one device
\* succeeded and another failed.
C12_Witness ==
  /\ mainPc = "exit"
  /\ returned
  /\ report.status = 1
  /\ report.success >= 1
  /\ report.failed >= 1
  /\ \E d \in Devices : Loaded(d) /\ result[d].err = NoError /\ writeCalls[d] = 1

\* C13: the timeout a device task uses is the device's own timeout when it has
\* one, and the value of the -timeout option when it has none.
C13_DefaultTimeoutFromOption ==
  ret.fn = "EffectiveTimeout" =>
    ret.num = IF call.timeout = 0 THEN call.flag ELSE call.timeout

\* C14: when executeBackups has returned, every device whose Result is a success
\* has its file, and the file holds exactly the output of that device's Result.
C14_OwnFilePerDevice ==
  returned =>
    \A d \in Devices :
      (Loaded(d) /\ result[d].err = NoError) =>
        /\ files[devPath[d]].exists
        /\ files[devPath[d]].content = result[d].output

\* C15: commentFirstLastLines keeps the number of lines; it puts the prefix once
\* before the first and before the last non-empty line and leaves every other
\* line as it was; so with a prefix exactly one line changes when the text has
\* one non-empty line, exactly two when it has more, and none when it has none.
C15_BoundaryLinesAnnotated ==
  ret.fn = "commentFirstLastLines" =>
    LET inLines == SplitLines(call.text)
        outLines == SplitLines(ret.text)
        nonEmpty == {k \in 1..Len(inLines) : inLines[k] # Empty}
        boundary == {k \in nonEmpty : (\A m \in nonEmpty : k <= m)
                                        \/ (\A m \in nonEmpty : k >= m)}
        changed == {k \in 1..Len(inLines) : outLines[k] # inLines[k]}
    IN /\ Len(outLines) = Len(inLines)
       /\ \A k \in 1..Len(inLines) :
            outLines[k] = IF k \in boundary THEN call.prefix \o inLines[k]
                          ELSE inLines[k]
       /\ call.prefix # Empty =>
            /\ changed = boundary
            /\ Cardinality(changed) = CASE Cardinality(nonEmpty) = 0 -> 0
                                        [] Cardinality(nonEmpty) = 1 -> 1
                                        [] OTHER -> 2

\* C15 witness: a text of three lines of which only the middle one is not empty
\* was annotated; the middle line carries the prefix once.
C15_Witness ==
  /\ ret.fn = "commentFirstLastLines"
  /\ call.text = <<"\n", "x", "\n">>
  /\ call.prefix = <<"!">>
  /\ ret.text = <<"\n", "!", "x", "\n">>

\* The part of the artifact that the claim assigns to a raw capture: redact, then
\* the residual expect replacements, then the annotation of its kind.
ExpectedPart(raw, m, kind) ==
  LET redacted == applySecrets(raw, m.Secrets)
      residual == applyExpectReplacements(redacted, m.Expect)
  IN IF kind = "comments" THEN commentAllLines(residual, m.Comment)
     ELSE commentFirstLastLines(residual, m.Comment)

NonEmptyText(t) == t # Empty

\* C16: the output of a successful executor.Execute is the parts of the annotation
\* captures in order followed by the parts of the capture captures in order, empty
\* parts left out, joined by single line breaks; each part is the annotation of the
\* residual replacement of the redacted raw capture, so no text that a secret rule
\* matches is left in the output.
C16_ArtifactComposition ==
  ret.fn = "Execute" =>
    LET m == Models[call.model]
        parts == [k \in 1..Len(call.comments) |->
                    ExpectedPart(call.comments[k], m, "comments")]
                 \o [k \in 1..Len(call.commands) |->
                       ExpectedPart(call.commands[k], m, "commands")]
    IN /\ ret.text = JoinLines(SelectSeq(parts, NonEmptyText))
       /\ \A k \in 1..Len(m.Secrets) : ~MatchString(m.Secrets[k].Pattern, ret.text)

\* C16 witness: a model with a secret rule and a comment prefix; the annotation
\* capture and the capture capture both hold a secret on their middle line.
C16_Witness ==
  /\ ret.fn = "Execute"
  /\ call.model = "ios"
  /\ call.comments = << <<"x", "\n", "s", "\n", "x">> >>
  /\ call.commands = << <<"x", "\n", "s", "\n", "x">> >>
  /\ ret.text = <<"!", "x", "\n", "!", "*", "\n", "!", "x", "\n",
                  "!", "x", "\n", "*", "\n", "!", "x">>

\* C17: a device is dialed only in a run whose model file has no pattern that
\* fails to compile; with such a pattern executeBackups never starts (no device is
\* looked at, no goroutine, no Result) and main exits with status 1; no Result
\* ever carries a pattern compilation error.
C17_PatternsCompiledBeforeConnect ==
  /\ \A d \in Devices :
       /\ cli[d].dialed => \A kind \in PatternKinds : Compiles(kind)
       /\ result[d].err # "pattern"
       /\ fault[d] # "pattern"
  /\ (\E kind \in PatternKinds : ~Compiles(kind)) =>
       /\ mainPc \in {"load", "exit"}
       /\ mainPc = "exit" => report.status = 1
       /\ i = 1
       /\ resultCh = <<>> /\ results = <<>> /\ ~returned
       /\ \A d \in Devices : pc[d] = "idle" /\ stdin[d] = <<>>

\* C17 witness: the model file holds a secret rule whose pattern does not compile
\* and a device refers to the model with that rule; main has exited.
C17_Witness ==
  /\ ~Compiles("secret")
  /\ \E d \in Devices : Loaded(d) /\ Model(d).Secrets # <<>>
  /\ mainPc = "exit"
  /\ report.status = 1

\* The number of occurrences of a pattern in a text.
Occurrences(pat, text) == Cardinality({k \in 1..Len(text) : text[k] = pat})

RECURSIVE SeenBy(_, _, _)
\* The content the k-th rule of a list is evaluated on: the content with the
\* rewrites of the rules before it (a rule with send-text or replacement replaces
\* every occurrence of its pattern by its replacement).
SeenBy(rules, k, content) ==
  IF k = 1 THEN content
  ELSE LET before == SeenBy(rules, k - 1, content)
           rule == rules[k - 1]
       IN IF rule.Send # "" \/ rule.Replace # Empty
          THEN ReplaceAllString(rule.Pattern, before, rule.Replace)
          ELSE before

SendOnly(rule) == rule.Send # "" /\ rule.Replace = Empty

RECURSIVE SendsPerOccurrence(_, _, _)
\* The number of writes when every send-only rule writes once per occurrence of
\* its pattern in the content it is evaluated on.
SendsPerOccurrence(rules, k, content) ==
  IF k > Len(rules) THEN 0
  ELSE (IF SendOnly(rules[k])
        THEN Occurrences(rules[k].Pattern, SeenBy(rules, k, content)) ELSE 0)
         + SendsPerOccurrence(rules, k + 1, content)

\* C18 as stated: in a pass of the read loop whose send-rules are all send-only,
\* the send-texts written are one per occurrence of each rule's pattern in the
\* buffer the rule is evaluated on.
C18_OneSendPerOccurrence ==
  (ret.fn = "readUntil" /\ \A k \in 1..Len(call.rules) :
                             call.rules[k].Send # "" => SendOnly(call.rules[k])) =>
    Len(ret.sends) = SendsPerOccurrence(call.rules, 1, call.text \o call.chunk)

NonEmptySend(t) == t # ""

\* C18 amended: in a pass of the read loop every rule with send-text whose pattern
\* matches the buffer it is evaluated on writes its send-text exactly once, however
\* often the pattern occurs, in the order of the rules; a send-only rule that
\* matched leaves no occurrence of its pattern to the next rule; and the pass ends
\* the read only if the prompt is in the rewritten buffer.
C18_OneSendPerEvaluation ==
  ret.fn = "readUntil" =>
    LET rules == call.rules
        content == call.text \o call.chunk
        fired == [k \in 1..Len(rules) |->
                    IF rules[k].Send # ""
                       /\ Occurrences(rules[k].Pattern, SeenBy(rules, k, content)) > 0
                    THEN rules[k].Send ELSE ""]
    IN /\ ret.sends = SelectSeq(fired, NonEmptySend)
       /\ \A k \in 1..Len(rules) :
            SendOnly(rules[k])
              => Occurrences(rules[k].Pattern, SeenBy(rules, k + 1, content)) = 0
       /\ ret.done => Occurrences("#", ret.text) > 0

\* C18 witness: a chunk with two pager markers met a send-only pager rule: one
\* send-text was written, both markers are gone, the read goes on.
C18_Witness ==
  /\ ret.fn = "readUntil"
  /\ call.rules = << [Pattern |-> "M", Send |-> " ", Replace |-> Empty] >>
  /\ call.chunk = <<"M", "M">>
  /\ ret.sends = <<" ">>
  /\ ret.text = call.text
  /\ ~ret.done

RECURSIVE SubstitutionsOnly(_, _)
\* The text after the rules that have a replacement-text, in order; every other
\* rule leaves the text as it is.
SubstitutionsOnly(text, rules) ==
  IF rules = <<>> THEN text
  ELSE SubstitutionsOnly(IF Head(rules).Replace # Empty
                         THEN ReplaceAllString(Head(rules).Pattern, text,
                                               Head(rules).Replace)
                         ELSE text,
                         Tail(rules))

\* C20: applyExpectReplacements leaves the text unchanged for every rule without
\* replacement-text, with or without send-text, even where its pattern matches;
\* only the rules with a replacement-text substitute.
C20_NoOpRulesSkipped ==
  ret.fn = "applyExpectReplacements" => ret.text = SubstitutionsOnly(call.text, call.rules)

\* C19: a pass of the read loop that received a chunk leaves in the buffer the
\* whole accumulated text (the earlier buffer and the chunk) rewritten by the rules
\* in declared order, each rule working on the result of the rules before it; the
\* pass ends the read exactly if the prompt is in that rewritten buffer, and the
\* text returned then is that buffer.
C19_RulesThenPromptOnRewrittenBuffer ==
  ret.fn = "readUntil" =>
    LET rewritten == SeenBy(call.rules, Len(call.rules) + 1, call.text \o call.chunk)
    IN /\ ret.text = rewritten
       /\ ret.done <=> Occurrences(ModelWith(call.rules).Prompt, rewritten) > 0

\* C19 witness: one chunk holds a pager marker followed by the prompt; the pager
\* rule answered and removed the marker, and the same pass ended the read with
\* the rewritten buffer.
C19_Witness ==
  /\ ret.fn = "readUntil"
  /\ call.rules = << [Pattern |-> "M", Send |-> " ", Replace |-> Empty] >>
  /\ call.text = <<"x">>
  /\ call.chunk = <<"M", "#">>
  /\ ret.sends = <<" ">>
  /\ ret.text = <<"x", "#">>
  /\ ret.done

\* C21: once executeBackups has started, no step of any device task changes the
\* shared model descriptors: the prompt matcher was stored at load, so
\* PromptRegex finds it, and the matchers of the rules are stored in loop-local
\* copies only. The shared state keeps its post-load value under every
\* interleaving of the tasks, two tasks of the same model included.
C21_SharedModelNeverWritten ==
  [][mainPc # "load" =>
       /\ modelCache' = modelCache
       /\ \A name \in ModelNames : modelCache[name].prompt = "compiled"]_vars

\* Two devices of the same model are inside executor.Execute at the same time
\* and both have matched the prompt at least once.
C21_Witness ==
  /\ devModel[1] = devModel[2]
  /\ Loaded(1)
  /\ \A d \in {1, 2} : readsOk[d] > 0 /\ Holding(d) /\ ~Executed(d)

\* The pre-logout command of d was written on stdin.
PreLogoutWritten(d) ==
  \E k \in 1..Len(stdin[d]) : stdin[d][k] = [text |-> Model(d).PreLogout, nl |-> TRUE]

\* C22: the pre-logout step is reached only after every command of the model was
\* answered by a prompt; it writes the pre-logout command at most once, and
\* nothing when the model has none; whether or not that write succeeds,
\* executor.Execute returns the success Result with the filtered output of all
\* captures; and after it the session is neither read nor written again.
C22_PreLogoutBestEffort ==
  [][\A d \in Devices : Loaded(d) =>
       LET m == Model(d) IN
       /\ pc[d] = "prelogout" =>
            /\ pos[d] = Len(CommandList(m))
            /\ readsOk[d] = Len(CommandList(m)) + 1
            /\ ~PreLogoutWritten(d)
       /\ (pc[d] = "prelogout" /\ pc'[d] # "prelogout") =>
            /\ pc'[d] \in {"write", "deliver"}
            /\ \/ stdin'[d] = stdin[d]
               \/ /\ m.PreLogout # ""
                  /\ stdin'[d] = Append(stdin[d], [text |-> m.PreLogout, nl |-> TRUE])
            /\ m.PreLogout = "" => stdin'[d] = stdin[d]
            /\ ~FilterFails(m) =>
                 result'[d] = [err |-> NoError,
                               output |-> FilteredOutput(commentsOutputs[d],
                                                         commandsOutputs[d], m)]
       /\ Executed(d) =>
            /\ stdin'[d] = stdin[d]
            /\ readsOk'[d] = readsOk[d]
            /\ pc'[d] \notin {"send", "read", "blocked", "prelogout"}]_vars

\* A model with a pre-logout command whose write failed: nothing of it is on
\* stdin, and executor.Execute returned success with a non-empty output.
C22_Witness ==
  /\ Loaded(1)
  /\ Model(1).PreLogout # ""
  /\ Executed(1)
  /\ ~PreLogoutWritten(1)
  /\ result[1] # NoResult
  /\ result[1].err = NoError
  /\ result[1].output # Empty

\* Some stdout.Read of some task never returns: that task does not finish.
SomeTaskStuck == \E d \in Devices : pc[d] = "blocked"

\* What holds of the channel, the semaphore and the WaitGroup in every state of
\* executeBackups.
C23_Safe ==
  /\ Len(resultCh) <= NumDevices
  /\ \A d \in Devices : pc[d] = "deliver" => Len(resultCh) < NumDevices /\ ~chClosed
  /\ (mainPc = "backup" /\ i <= NumDevices) => Len(resultCh) < NumDevices /\ ~chClosed
  /\ sem = Cardinality(Active)
  /\ chClosed => /\ i > NumDevices
                 /\ wg = 0
                 /\ sem = 0
                 /\ \A d \in Devices : pc[d] \in {"done", "skipped"}
  /\ returned => chClosed /\ Len(results) = NumDevices

\* C23: for every worker limit from 1 up and every device list, if no task stays
\* inside executor.Execute for ever then executeBackups returns: every queued
\* task is admitted, no send on resultCh finds the channel full or closed, every
\* slot taken from sem is given back, and resultCh is closed once, after the last
\* task has finished.
C23_ExecuteBackupsReturns ==
  /\ []C23_Safe
  /\ [][chClosed => chClosed']_vars
  /\ \A d \in Devices : (pc[d] = "acquire") ~> (Holding(d) \/ SomeTaskStuck)
  /\ (mainPc = "backup") ~> (returned \/ SomeTaskStuck)

\* executeBackups has returned after two loaded devices shared one slot: the
\* second one was queued, then admitted, and both delivered their Result.
C23_Witness ==
  /\ returned
  /\ workers = 1
  /\ \A d \in Devices : pc[d] = "done"
  /\ Len(results) = NumDevices
  /\ sem = 0

\* The rules of a list that have send-text and whose pattern is in the text.
SendRulesIn(rules, text) ==
  {k \in 1..Len(rules) : rules[k].Send # "" /\ MatchString(rules[k].Pattern, text)}

\* No replacement-text of the list matches the pattern of a rule with send-text.
NoReplacementMatchesSendRule(rules) ==
  \A k, j \in 1..Len(rules) :
    rules[k].Send # "" => ~MatchString(rules[k].Pattern, rules[j].Replace)

\* The cycle that ret belongs to, for the rule lists that satisfy the condition:
\* the first pass leaves no occurrence of the pattern of a rule with send-text in
\* the buffer, a second Read that delivers no such occurrence sends nothing, and
\* what the cycle returns does not depend on what the buffer held before it.
NoSecondSend(condition) ==
  ret.fn = "readCycle" =>
    LET rules == call.rules
        model == ModelWith(rules)
        chunks == call.chunks
        first == ReadChunk(Empty, chunks[1], model)
    IN /\ (chunks # <<>> /\ condition)
            => /\ SendRulesIn(rules, first.text) = {}
               /\ (Len(chunks) = 2 /\ SendRulesIn(rules, chunks[2]) = {})
                    => ret.sends = first.sends
       /\ chunks = <<>> => ret.text = Empty /\ ret.sends = <<>>
       /\ \A stale \in StaleBuffers :
            LET other == ReadCycle(stale, chunks, model)
            IN ret.text = other.text /\ ret.sends = other.sends /\ ret.done = other.done

====
